---- MODULE Spec2Model ----
(***************************************************************************)
(* Model of LC::TrafficSimulator (src/LivingCity/traffic/                  *)
(* traffic_simulator.cpp): the route assignment run by the constructor     *)
(* (route_finding_) and the time-stepped driver (simulateInGPU).           *)
(*                                                                         *)
(* Simulated time is a float in the source.  The model keeps it in ticks   *)
(* of 1/TimeScale second and rounds every sum to the significand of a      *)
(* float (FloatRound): small tick counts are exact, large ones are not.    *)
(***************************************************************************)
EXTENDS Integers, Sequences, FiniteSets, TLC

\* ------------------------------------------------------------ bounds
NumAgents == 2
MaxRuns == 2
TimeScale == 4
MaxDelta == 6
MaxSave == 3
MaxStart == 1
MaxDuration == 16
\* capacity C of the fixed-size route buffer of an Agent; the source under
\* study does not fix its value
RouteCapacity == 4
\* number of vertices of the modelled network
NumVertices == 104

\* ------------------------------------------------- program constants
\* line 41: node_sequence[i].size() > 100
LongRouteThreshold == 100

VARIABLES
  \* --- route_finding_
  agents,          \* od_->agents(): per agent origin, destination, route[], route_size
  node_sequence,   \* result of graph_ch->Routes, one vertex sequence per agent
  i, j,            \* loop counters of lines 39 and 48
  rf_pc,           \* position inside route_finding_
  runs,            \* number of route_finding_ runs started on this population
  warnings,        \* what was written to std::cerr by route_finding_
  lookups,         \* per agent: number of network_->edge_id calls made for it
  oob,             \* agents for which a write at an index >= RouteCapacity was issued
  agents_before,   \* the agents as they were when the current run began
  \* --- simulateInGPU
  startTime, endTime, save_interval, deltaTime_,
  num_save_steps, simulations_steps,
  sim_pc,          \* position inside simulateInGPU
  device,          \* state of the device session
  dev,             \* the device-resident simulation state
  calls,           \* device calls issued by the host, in order
  checkpoints,     \* snapshots written (save_edges + save_agents), in order
  start0,          \* the startTime argument as passed by the caller
  \* --- save_edges, save_agents
  edgesData,       \* lanemap_->edgesData() as filled by cuda_get_data, per mid
  agent_stats,     \* the statistics fields of od_->agents() as filled by cuda_get_data
  current_time,    \* the argument of save_edges / save_agents
  snap_pc,         \* position inside save_edges / save_agents
  mid_it,          \* the entry of mid2eid the loop of line 148 stands at
  ai,              \* loop counter of line 192
  edge_out,        \* the record last written to edge_data_<t>.csv
  agent_out        \* the record last written to agents_data_<t>.csv

rfvars == <<agents, node_sequence, i, j, rf_pc, runs, warnings, lookups, oob,
            agents_before>>
simvars == <<startTime, endTime, save_interval, deltaTime_, num_save_steps,
             simulations_steps, sim_pc, device, dev, calls, checkpoints, start0>>
snapvars == <<edgesData, agent_stats, current_time, snap_pc, mid_it, ai, edge_out,
              agent_out>>
vars == <<agents, node_sequence, i, j, rf_pc, runs, warnings, lookups, oob,
          agents_before, startTime, endTime, save_interval, deltaTime_, num_save_steps,
          simulations_steps, sim_pc, device, dev, calls, checkpoints, start0,
          edgesData, agent_stats, current_time, snap_pc, mid_it, ai, edge_out,
          agent_out>>

\* =====================================================================
\* External collaborators of route_finding_ (Network, RoutingIndex,
\* Lanemap): a directed line 0 -> 1 -> ... -> NumVertices-1, which is the
\* 4-vertex network of the end-to-end scenario made longer.
\* =====================================================================
Vertices == 0..(NumVertices - 1)
EdgeIds == 0..(NumVertices - 2)
NoVertex == -1
NoEdge == -1

\* Network::edge_id(u, v): the id of the edge u -> v, NoEdge if there is none
edge_id(u, v) == IF u \in Vertices /\ v \in Vertices /\ v = u + 1 THEN u ELSE NoEdge

\* Network: the ordered vertex pair of a graph edge
edge_vertices(eid) == <<eid, eid + 1>>

\* a graph edge that has no lane-level representation
UnmappedEdge == LongRouteThreshold + 1

\* Lanemap::eid2mid(): edges 0-1, 1-2, 2-3 map to merged ids 10, 11, 12; the
\* map is defined on the edges that take part in the lane-level simulation
eid2mid == [e \in EdgeIds \ {UnmappedEdge} |-> e + 10]

\* Lanemap::mid2eid(): the inverse map
mid2eid == [m \in {eid2mid[e] : e \in DOMAIN eid2mid} |->
              CHOOSE e \in DOMAIN eid2mid : eid2mid[e] = m]

\* Accessibility::Routes for one (source, target) pair: the vertex sequence of
\* the shortest path, a single vertex when source = target, empty when the
\* target cannot be reached
Routes(s, t) == IF s <= t THEN [k \in 1..(t - s + 1) |-> s + k - 1] ELSE <<>>

\* origin/destination pairs an agent may have
ODPairs == {<<0, 0>>, <<0, 3>>, <<3, 0>>, <<1, 3>>,
            <<0, RouteCapacity>>, <<0, RouteCapacity + 1>>,
            <<0, LongRouteThreshold>>,
            <<LongRouteThreshold, LongRouteThreshold + 3>>}

AgentIds == 0..(NumAgents - 1)

\* the route array of a freshly created agent
EmptyRoute == [k \in 0..(RouteCapacity - 1) |-> 0]

\* an agent as created by OD, before any route assignment
NewAgent(od) == [init_intersection |-> od[1], end_intersection |-> od[2],
                 route |-> EmptyRoute, route_size |-> 0]

\* element k (0-based) of a std::vector; NoVertex stands for a read past the end
At(seq, k) == IF k + 1 \in 1..Len(seq) THEN seq[k + 1] ELSE NoVertex

\* =====================================================================
\* route_finding_
\* =====================================================================

\* line 41: if (node_sequence[i].size() > 100)
LongRouteWarned(sz) == sz > LongRouteThreshold

\* line 45: if (node_sequence[i].size() == 0)
HasNoRouteAlt(sz) == sz <= 1
HasNoRoute(sz) == sz = 0

\* line 48: j < node_sequence[i].size() - 1 (taken only with size() >= 1)
InnerLoopCondAlt(jj, sz) == jj < sz
InnerLoopCond(jj, sz) == jj < sz - 1

\* line 39: i < node_sequence.size()
OuterLoopCond(ii) == ii < Len(node_sequence)

\* lines 23-35: build the routing index, query all agents in one batch
RouteFindingBegin ==
  /\ rf_pc \in {"idle", "done"}
  /\ runs < MaxRuns
  /\ runs' = runs + 1
  /\ node_sequence' = [k \in 1..NumAgents |->
                         Routes(agents[k - 1].init_intersection,
                                agents[k - 1].end_intersection)]
  /\ i' = 0
  /\ j' = 0
  /\ rf_pc' = "agent"
  /\ agents_before' = agents
  /\ UNCHANGED <<agents, warnings, lookups, oob>>
  /\ UNCHANGED simvars
  /\ UNCHANGED snapvars

\* lines 39-47: head of the loop over the agents, the two warnings
AgentHead ==
  /\ rf_pc = "agent"
  /\ IF OuterLoopCond(i)
     THEN LET sz == Len(node_sequence[i + 1])
              w1 == IF LongRouteWarned(sz)
                    THEN Append(warnings, [kind |-> "long", agent |-> i])
                    ELSE warnings
          IN IF HasNoRoute(sz)
             THEN /\ warnings' = Append(w1, [kind |-> "noroute", agent |-> i])
                  /\ i' = i + 1
                  /\ UNCHANGED <<j, rf_pc>>
             ELSE /\ warnings' = w1
                  /\ j' = 0
                  /\ rf_pc' = "edge"
                  /\ UNCHANGED i
     ELSE /\ rf_pc' = "done"
          /\ UNCHANGED <<i, j, warnings>>
  /\ UNCHANGED <<agents, node_sequence, runs, lookups, oob, agents_before>>
  /\ UNCHANGED simvars
  /\ UNCHANGED snapvars

\* line 53-54: agent.route[agent.route_size] = mid; agent.route_size++
\* A write at an index >= RouteCapacity is outside the array: undefined
\* behaviour, of which the model keeps two outcomes, a fault that ends the
\* process and a stray write that leaves the array as it is.  Where a stray
\* write lands depends on the layout of Agent, which this file does not
\* define; the model records that it happened (oob) and leaves the other
\* modelled fields alone.
WriteOutcomes(k) == IF k < RouteCapacity THEN {"stored"} ELSE {"fault", "stray"}

RouteAppendAlt(a, mid, outcome) ==
  IF outcome = "stored"
  THEN [a EXCEPT !.route = [@ EXCEPT ![a.route_size] = mid]]
  ELSE a

RouteAppend(a, mid, outcome) ==
  IF outcome = "stored"
  THEN [a EXCEPT !.route = [@ EXCEPT ![a.route_size] = mid],
                 !.route_size = @ + 1]
  ELSE [a EXCEPT !.route_size = @ + 1]

\* lines 48-55: one iteration of the loop over the consecutive vertex pairs
EdgeStep ==
  /\ rf_pc = "edge"
  /\ LET seq == node_sequence[i + 1]
     IN IF InnerLoopCond(j, Len(seq))
        THEN LET vertex_from == At(seq, j)
                 vertex_to == At(seq, j + 1)
                 eid == edge_id(vertex_from, vertex_to)
             IN /\ lookups' = [lookups EXCEPT ![i] = @ + 1]
                /\ IF eid \notin DOMAIN eid2mid
                   THEN \* eid2mid.at(eid) throws std::out_of_range
                        /\ rf_pc' = "threw"
                        /\ UNCHANGED <<agents, oob, i, j>>
                   ELSE \E outcome \in WriteOutcomes(agents[i].route_size) :
                          IF outcome = "fault"
                          THEN /\ rf_pc' = "crashed"
                               /\ oob' = oob \cup {i}
                               /\ UNCHANGED <<agents, i, j>>
                          ELSE /\ agents' = [agents EXCEPT
                                     ![i] = RouteAppend(@, eid2mid[eid], outcome)]
                               /\ oob' = IF outcome = "stray" THEN oob \cup {i} ELSE oob
                               /\ j' = j + 1
                               /\ UNCHANGED <<i, rf_pc>>
        ELSE /\ i' = i + 1
             /\ rf_pc' = "agent"
             /\ UNCHANGED <<agents, oob, j, lookups>>
  /\ UNCHANGED <<node_sequence, runs, warnings, agents_before>>
  /\ UNCHANGED simvars
  /\ UNCHANGED snapvars

\* =====================================================================
\* simulateInGPU
\* =====================================================================

\* float -> int conversion and int division truncate toward zero
TruncDiv(a, b) == IF a >= 0 THEN a \div b ELSE -((-a) \div b)

\* line 110: int num_save_steps = save_interval / deltaTime_;
\* save_interval is in seconds, deltaTime_ in ticks
IntervalSteps(si, dt) == TruncDiv(si * TimeScale, dt)

\* line 113: while (startTime < endTime)
LoopCondAlt(t, e) == t <= e
LoopCond(t, e) == t < e

\* line 120: simulations_steps % num_save_steps == 0, for num_save_steps # 0.
\* simulations_steps is unsigned, so a negative num_save_steps is converted
\* to 2^32 + num_save_steps, which is above every step count the model
\* reaches: the remainder is then the step count itself.
SaveDue(steps, k) == IF k > 0 THEN steps % k = 0 ELSE steps = 0

\* lines 131, 166: save_edges(int) / save_agents(int) receive the float time
\* converted to int, in seconds
TimeTag(t) == TruncDiv(t, TimeScale)

\* lines 64, 118: startTime, endTime and deltaTime_ are `float`, a binary
\* format with a significand of FloatBits bits.  A sum that needs more bits is
\* rounded to the nearest representable value, ties to the even significand.
\* On tick counts: below 2^FloatBits every count is representable, from there
\* on only the multiples of Ulp.
FloatBits == 24
RECURSIVE Pow2(_)
Pow2(n) == IF n = 0 THEN 1 ELSE 2 * Pow2(n - 1)
RECURSIVE Ulp(_)
Ulp(n) == IF n < Pow2(FloatBits) THEN 1 ELSE 2 * Ulp(n \div 2)
FloatRound(n) ==
  LET m == IF n < 0 THEN -n ELSE n
      u == Ulp(m)
      q == m \div u
      r == m % u
      up == IF 2 * r > u \/ (2 * r = u /\ q % 2 = 1) THEN 1 ELSE 0
      v == (q + up) * u
  IN IF n < 0 THEN -v ELSE v
Representable(n) == FloatRound(n) = n

\* line 118: startTime += deltaTime_
FloatAddAlt(a, b) == FloatRound(a)
FloatAdd(a, b) == FloatRound(a + b)

\* no run of the model takes more steps than this (a run whose clock has
\* stopped advancing steps for ever; the model follows it this far)
MaxSteps == MaxDuration + 2

\* The device-resident state.  The kernels are opaque; a step is a
\* deterministic function of the state and of the time it is given, so the
\* state is modelled by the sequence of times of the steps applied to what
\* init_cuda uploaded.
Uploaded == <<>>
DevStep(d, t) == Append(d, t)

\* lines 114-125: what one loop iteration does to the device state.  Only
\* cuda_simulate works on it; cuda_get_data (line 121) fills the host copies
\* and nothing is uploaded again before finish_cuda.
DeviceAfterIterationAlt(d, t, outcome) ==
  IF outcome = "due" THEN Uploaded ELSE DevStep(d, t)
DeviceAfterIteration(d, t, outcome) == DevStep(d, t)

\* lines 82-92: init_cuda
InitCuda ==
  /\ sim_pc = "entry"
  /\ device' = "initialised"
  /\ dev' = Uploaded
  /\ calls' = Append(calls, [op |-> "init_cuda", t |-> 0])
  /\ sim_pc' = "inited"
  /\ UNCHANGED <<startTime, endTime, save_interval, deltaTime_, num_save_steps,
                 simulations_steps, checkpoints, start0>>
  /\ UNCHANGED rfvars
  /\ UNCHANGED snapvars

\* lines 110-111
ComputeInterval ==
  /\ sim_pc = "inited"
  /\ num_save_steps' = IntervalSteps(save_interval, deltaTime_)
  /\ simulations_steps' = 0
  /\ sim_pc' = "loop"
  /\ UNCHANGED <<startTime, endTime, save_interval, deltaTime_, device, dev, calls,
                 checkpoints, start0>>
  /\ UNCHANGED rfvars
  /\ UNCHANGED snapvars

\* What line 120 can evaluate to.  With num_save_steps = 0 the % divides by
\* zero: undefined behaviour.  The outcomes kept are the two that builds
\* produce: the division traps (x86: SIGFPE ends the process), or the
\* division yields 0 and the remainder is the step count itself, which is
\* not 0 (AArch64).
DueOutcomes(steps, k) ==
  IF k = 0 THEN {"trap", "notdue"}
  ELSE IF SaveDue(steps, k) THEN {"due"} ELSE {"notdue"}

\* lines 113-126: one iteration of the stepping loop
Iterate ==
  /\ sim_pc = "loop"
  /\ LoopCond(startTime, endTime)
  /\ simulations_steps < MaxSteps
  /\ simulations_steps' = simulations_steps + 1
  /\ startTime' = FloatAdd(startTime, deltaTime_)
  /\ \E outcome \in DueOutcomes(simulations_steps + 1, num_save_steps) :
       LET stepped == Append(calls, [op |-> "cuda_simulate", t |-> startTime])
       IN /\ sim_pc' = IF outcome = "trap" THEN "crashed" ELSE "loop"
          /\ dev' = DeviceAfterIteration(dev, startTime, outcome)
          /\ calls' = IF outcome = "due"
                      THEN Append(stepped, [op |-> "cuda_get_data", t |-> startTime'])
                      ELSE stepped
          /\ checkpoints' = IF outcome = "due"
                            THEN Append(checkpoints,
                                        [step |-> simulations_steps + 1,
                                         time |-> startTime',
                                         tag |-> TimeTag(startTime')])
                            ELSE checkpoints
  /\ UNCHANGED <<endTime, save_interval, deltaTime_, num_save_steps, device, start0>>
  /\ UNCHANGED rfvars
  /\ UNCHANGED snapvars

\* lines 113, 128: the loop condition fails, finish_cuda, return
FinishCudaAlt ==
  /\ sim_pc = "loop"
  /\ ~LoopCond(startTime, endTime)
  /\ sim_pc' = "done"
  /\ UNCHANGED <<startTime, endTime, save_interval, deltaTime_, num_save_steps,
                 simulations_steps, device, dev, calls, checkpoints, start0>>
  /\ UNCHANGED rfvars
  /\ UNCHANGED snapvars
FinishCuda ==
  /\ sim_pc = "loop"
  /\ ~LoopCond(startTime, endTime)
  /\ device' = "finished"
  /\ calls' = Append(calls, [op |-> "finish_cuda", t |-> 0])
  /\ UNCHANGED dev
  /\ sim_pc' = "done"
  /\ UNCHANGED <<startTime, endTime, save_interval, deltaTime_, num_save_steps,
                 simulations_steps, checkpoints, start0>>
  /\ UNCHANGED rfvars
  /\ UNCHANGED snapvars

\* =====================================================================
\* save_edges, save_agents
\* =====================================================================

\* A float value as a fraction num / den.  den = 0 stands for what a float
\* division by zero yields: NaN (num = 0) or an infinity.
ToFloat(n) == [num |-> n, den |-> 1]
IsNumber(x) == x.den # 0

\* float / unsigned count: the count is converted to float, the quotient is
\* a float quotient
FloatDiv(x, n) == [num |-> x.num, den |-> x.den * n]
FloatMul(x, y) == [num |-> x.num * y.num, den |-> x.den * y.den]

\* deltaTime_ (ticks) as a float number of seconds
DeltaSeconds == [num |-> deltaTime_, den |-> TimeScale]

\* the entries of mid2eid in the order the loop of line 148 visits them
Mids == DOMAIN mid2eid
EndIt == -1
FirstMid == IF Mids = {} THEN EndIt
            ELSE CHOOSE m \in Mids : \A x \in Mids : m <= x
NextMid(m) ==
  LET rest == {x \in Mids : x > m}
  IN IF rest = {} THEN EndIt ELSE CHOOSE n \in rest : \A x \in rest : n <= x

\* an EdgeData the device has not counted anything on
ZeroEdgeData ==
  [upstream_veh_count |-> 0, downstream_veh_count |-> 0, period_cum_travel_steps |-> 0]

\* line 152: edgesData.at(mid)
EdgeDataAt(mid) == IF mid \in DOMAIN edgesData THEN edgesData[mid] ELSE ZeroEdgeData

\* EdgeData::period_cum_travel_steps and Agent::cum_v are declared outside
\* this file; they are accumulators read as float values
TravelSteps(ed) == ToFloat(ed.period_cum_travel_steps)
CumV(st) == ToFloat(st.cum_v)

\* lines 153-158: the average travel time of one merged edge
AveTimeAlt(ed) ==
  IF ed.downstream_veh_count > 0
  THEN FloatMul(ToFloat(ed.period_cum_travel_steps \div ed.downstream_veh_count),
                DeltaSeconds)
  ELSE ToFloat(-1)
AveTime(ed) ==
  IF ed.downstream_veh_count > 0
  THEN FloatMul(FloatDiv(TravelSteps(ed), ed.downstream_veh_count), DeltaSeconds)
  ELSE ToFloat(-1)

\* lines 160-162: one line of edge_data_<t>.csv
EdgeRecord(mid) ==
  LET ed == EdgeDataAt(mid)
      eid == mid2eid[mid]
  IN [eid |-> eid, u |-> edge_vertices(eid)[1], v |-> edge_vertices(eid)[2],
      upstream_count |-> ed.upstream_veh_count,
      downstream_count |-> ed.downstream_veh_count,
      ave_time |-> AveTime(ed)]

\* line 197: agent.cum_v / agent.num_steps, with no test of num_steps
AveSpeed(st) == FloatDiv(CumV(st), st.num_steps)

\* lines 194-198: one line of agents_data_<t>.csv (the columns type, status,
\* travel_dist, num_slowdown, num_lane_change, num_in_queue are copies of
\* agent fields and are left out)
AgentRecord(a) ==
  [aid |-> a, ori |-> agents[a].init_intersection, dest |-> agents[a].end_intersection,
   travel_time |-> FloatMul(ToFloat(agent_stats[a].num_steps), DeltaSeconds),
   ave_speed |-> AveSpeed(agent_stats[a])]

NoRecord == [none |-> TRUE]

\* lines 131-147: save_edges opens edge_data_<current_time>.csv, writes the
\* header
SaveEdgesBegin ==
  /\ snap_pc = "checkpoint"
  /\ snap_pc' = "edges"
  /\ mid_it' = FirstMid
  /\ UNCHANGED <<edgesData, agent_stats, current_time, ai, edge_out, agent_out>>
  /\ UNCHANGED rfvars
  /\ UNCHANGED simvars

\* lines 148-163: one iteration of the loop over mid2eid
SaveEdgeRecord ==
  /\ snap_pc = "edges"
  /\ mid_it # EndIt
  /\ edge_out' = EdgeRecord(mid_it)
  /\ mid_it' = NextMid(mid_it)
  /\ UNCHANGED <<edgesData, agent_stats, current_time, snap_pc, ai, agent_out>>
  /\ UNCHANGED rfvars
  /\ UNCHANGED simvars

\* lines 164-191: save_edges returns; save_agents opens
\* agents_data_<current_time>.csv, writes the header
SaveAgentsBegin ==
  /\ snap_pc = "edges"
  /\ mid_it = EndIt
  /\ snap_pc' = "agents"
  /\ ai' = 0
  /\ UNCHANGED <<edgesData, agent_stats, current_time, mid_it, edge_out, agent_out>>
  /\ UNCHANGED rfvars
  /\ UNCHANGED simvars

\* lines 192-199: one iteration of the loop over the agents
SaveAgentRecord ==
  /\ snap_pc = "agents"
  /\ ai < NumAgents
  /\ agent_out' = AgentRecord(ai)
  /\ ai' = ai + 1
  /\ UNCHANGED <<edgesData, agent_stats, current_time, snap_pc, mid_it, edge_out>>
  /\ UNCHANGED rfvars
  /\ UNCHANGED simvars

\* lines 192, 200: the loop ends, save_agents returns
SaveAgentsEnd ==
  /\ snap_pc = "agents"
  /\ ai >= NumAgents
  /\ snap_pc' = "saved"
  /\ UNCHANGED <<edgesData, agent_stats, current_time, mid_it, ai, edge_out, agent_out>>
  /\ UNCHANGED rfvars
  /\ UNCHANGED simvars

\* =====================================================================
\* Specifications
\* =====================================================================

\* simulateInGPU not entered
SimIdle ==
  /\ startTime = 0 /\ endTime = 0 /\ save_interval = 1 /\ deltaTime_ = 1
  /\ num_save_steps = 0 /\ simulations_steps = 0
  /\ sim_pc = "idle" /\ device = "none" /\ calls = <<>> /\ checkpoints = <<>>
  /\ dev = Uploaded
  /\ start0 = 0

\* no snapshot being written
SnapIdle ==
  /\ edgesData = <<>> /\ agent_stats = <<>> /\ current_time = 0
  /\ snap_pc = "idle" /\ mid_it = EndIt /\ ai = 0
  /\ edge_out = NoRecord /\ agent_out = NoRecord

\* the agent population as handed to the constructor
FreshAgents ==
  /\ agents \in [AgentIds -> {NewAgent(od) : od \in ODPairs}]
  /\ node_sequence = <<>>
  /\ i = 0 /\ j = 0
  /\ rf_pc = "idle"
  /\ runs = 0
  /\ warnings = <<>>
  /\ lookups = [a \in AgentIds |-> 0]
  /\ oob = {}
  /\ agents_before = agents

\* the constructor's route assignment; a second simulator built over the same
\* OD runs route_finding_ again on the same agents
InitRoute == FreshAgents /\ SimIdle /\ SnapIdle
NextRoute == RouteFindingBegin \/ AgentHead \/ EdgeStep
SpecRoute == InitRoute /\ [][NextRoute]_vars

\* the start times tried: small ones, and the first one from which a float
\* no longer holds every tick
BigStart == Pow2(FloatBits)
StartTimes == (0..MaxStart) \cup {BigStart}

\* one call of simulateInGPU(startTime, endTime, save_interval); the device
\* kernels are opaque, so the population plays no part and is left empty
InitSim ==
  /\ agents = <<>> /\ agents_before = <<>> /\ lookups = <<>>
  /\ node_sequence = <<>>
  /\ i = 0 /\ j = 0 /\ rf_pc = "done" /\ runs = 1
  /\ warnings = <<>> /\ oob = {}
  /\ deltaTime_ \in 1..MaxDelta
  /\ save_interval \in (-1)..MaxSave
  /\ start0 \in StartTimes
  /\ startTime = start0
  /\ endTime \in {e \in (start0 - 1)..(start0 + MaxDuration) : Representable(e)}
  /\ num_save_steps = 0 /\ simulations_steps = 0
  /\ sim_pc = "entry" /\ device = "none" /\ calls = <<>> /\ checkpoints = <<>>
  /\ dev = Uploaded
  /\ SnapIdle
NextSim == InitCuda \/ ComputeInterval \/ Iterate \/ FinishCuda
SpecSim == InitSim /\ [][NextSim]_vars

\* simulateInGPU runs on one host thread that is never suspended for ever:
\* while a step of the function is possible, one is eventually taken
SpecSimFair == InitSim /\ [][NextSim]_vars /\ WF_vars(NextSim)

\* what the device may have counted on an edge when a checkpoint is taken:
\* nothing, travel steps but no vehicle through yet, and vehicles through
\* with a step total that their number does or does not divide
EdgeDataChoices ==
  {[upstream_veh_count |-> u, downstream_veh_count |-> sk[2],
    period_cum_travel_steps |-> sk[1]] :
     u \in {2}, sk \in {<<0, 0>>, <<3, 0>>, <<3, 2>>, <<4, 2>>}}

\* the statistics of an agent when a checkpoint is taken: not departed yet
\* (no step, no speed accumulated), or under way
AgentStatChoices ==
  {[num_steps |-> ns[1], cum_v |-> ns[2]] : ns \in {<<0, 0>>, <<2, 3>>, <<4, 10>>}}

\* the two merged edges the device has worked on
ActiveMids == {FirstMid, NextMid(FirstMid)}

\* one checkpoint (lines 121-124): cuda_get_data has filled the host copies,
\* save_edges and save_agents write them out
InitSnap ==
  /\ agents = [a \in AgentIds |-> NewAgent(<<0, 3>>)]
  /\ agents_before = agents
  /\ node_sequence = <<>>
  /\ i = 0 /\ j = 0 /\ rf_pc = "idle" /\ runs = 0
  /\ warnings = <<>> /\ lookups = [a \in AgentIds |-> 0] /\ oob = {}
  /\ startTime = 0 /\ endTime = 0 /\ save_interval = 1
  /\ deltaTime_ \in {1, MaxDelta}
  /\ num_save_steps = 0 /\ simulations_steps = 0
  /\ sim_pc = "idle" /\ device = "none" /\ calls = <<>> /\ checkpoints = <<>>
  /\ dev = Uploaded
  /\ start0 = 0
  /\ edgesData \in [ActiveMids -> EdgeDataChoices]
  /\ agent_stats \in [AgentIds -> AgentStatChoices]
  /\ current_time \in 0..MaxStart
  /\ snap_pc = "checkpoint" /\ mid_it = EndIt /\ ai = 0
  /\ edge_out = NoRecord /\ agent_out = NoRecord
NextSnap == SaveEdgesBegin \/ SaveEdgeRecord \/ SaveAgentsBegin \/ SaveAgentRecord
              \/ SaveAgentsEnd
SpecSnap == InitSnap /\ [][NextSnap]_vars

\* =====================================================================
\* Properties of simulateInGPU (checked under SpecSim)
\* =====================================================================
Abs(x) == IF x < 0 THEN -x ELSE x

\* n = m * k for some integer m
IsExactMultiple(n, k) == IF k = 0 THEN n = 0 ELSE n % Abs(k) = 0

\* a checkpoint was taken after step number n
CheckpointAfter(n) == \E c \in 1..Len(checkpoints) : checkpoints[c].step = n

\* the run has entered the stepping loop
InLoop == sim_pc \in {"loop", "done", "crashed"}

\* run duration T and save interval I, both in ticks
Duration == endTime - start0
SaveTicks == save_interval * TimeScale

\* C1: a checkpoint is taken after step n (n = 1, 2, ...) if and only if n is
\* an exact multiple of floor(save_interval / deltaTime).
C1_CheckpointIffMultiple ==
  InLoop => \A n \in 1..simulations_steps :
              CheckpointAfter(n)
                <=> IsExactMultiple(n, IntervalSteps(save_interval, deltaTime_))

\* C1 restricted to runs whose checkpoint interval is at least one step
\* (holds; the configurations left out are the ones C9 wants rejected)
CheckpointIffMultipleValidInterval ==
  (InLoop /\ IntervalSteps(save_interval, deltaTime_) >= 1)
    => \A n \in 1..simulations_steps :
         CheckpointAfter(n)
           <=> IsExactMultiple(n, IntervalSteps(save_interval, deltaTime_))

\* C2 as stated: a finished run of duration T >= 0 with save interval I > 0
\* has taken floor(T / I) checkpoints, and when I divides T (T > 0) the last
\* one is taken at the end of the duration, for every deltaTime.
C2_CountIsFloorTOverI ==
  (sim_pc = "done" /\ save_interval > 0 /\ Duration >= 0)
    => /\ Len(checkpoints) = Duration \div SaveTicks
       /\ (Duration > 0 /\ Duration % SaveTicks = 0)
            => /\ checkpoints # <<>>
               /\ checkpoints[Len(checkpoints)].time = start0 + Duration

\* the number of steps an exact clock needs to cover the duration
StepsNeeded ==
  IF Duration <= 0 THEN 0 ELSE (Duration + deltaTime_ - 1) \div deltaTime_

\* every time start0 + k * deltaTime the run reaches is a float
ExactClock == \A k \in 0..StepsNeeded : Representable(start0 + k * deltaTime_)

\* deltaTime divides both the save interval and the duration exactly
DeltaDividesBoth ==
  /\ save_interval > 0 /\ Duration >= 0
  /\ SaveTicks % deltaTime_ = 0
  /\ Duration % deltaTime_ = 0

\* C2 amended: the same, for runs in which deltaTime divides both the save
\* interval I and the duration T exactly and every time reached is a float.
C2_CountIsFloorTOverI_WhenDeltaDivides ==
  (sim_pc = "done" /\ DeltaDividesBoth /\ ExactClock)
    => /\ Len(checkpoints) = Duration \div SaveTicks
       /\ (Duration > 0 /\ Duration % SaveTicks = 0)
            => /\ checkpoints # <<>>
               /\ checkpoints[Len(checkpoints)].time = start0 + Duration

\* C2 witness: a finished run with 1 < deltaTime < I, deltaTime dividing I
\* and T, I dividing T, and two checkpoints taken, the last at the end time
C2_Witness ==
  /\ sim_pc = "done" /\ DeltaDividesBoth /\ ExactClock
  /\ deltaTime_ > 1 /\ SaveTicks > deltaTime_
  /\ Duration % SaveTicks = 0
  /\ Len(checkpoints) = 2
  /\ checkpoints[2].time = endTime

\* C9: when floor(save_interval / deltaTime) is zero or less, the run fails
\* at startup before init_cuda is called (no device call at all), and the
\* stepping loop never runs with an interval below 1.
C9_InvalidIntervalFailsBeforeInit ==
  /\ IntervalSteps(save_interval, deltaTime_) <= 0
       => (device = "none" /\ calls = <<>> /\ ~InLoop)
  /\ InLoop => num_save_steps >= 1

\* C10: when endTime is before startTime the run fails at startup and never
\* calls init_cuda; it does not initialise the device and finish normally.
C10_EndBeforeStartFailsBeforeInit ==
  endTime < start0 => (device = "none" /\ calls = <<>> /\ sim_pc # "done")

\* =====================================================================
\* Properties of route_finding_ (checked under SpecRoute)
\* =====================================================================

\* the routing result of agent a in the current run
PathOf(a) == node_sequence[a + 1]

\* routing results exist (route_finding_ has passed line 34 at least once)
Routed == Len(node_sequence) = NumAgents

\* the merged-edge ids of the consecutive vertex pairs of a path, in path order
PathMids(seq) ==
  [k \in 1..(Len(seq) - 1) |-> eid2mid[edge_id(seq[k], seq[k + 1])]]

\* the consecutive vertex pairs of a path, in path order
PathPairs(seq) == [k \in 1..(Len(seq) - 1) |-> <<seq[k], seq[k + 1]>>]

\* the array of agent a holds exactly the entries of mids, in order
BufferHolds(a, mids) ==
  /\ agents[a].route_size = Len(mids)
  /\ Len(mids) <= RouteCapacity
  /\ \A k \in 0..(Len(mids) - 1) : agents[a].route[k] = mids[k + 1]

\* the entries of agent a's array that route_size covers, mapped mid -> eid ->
\* vertex pair
DecodedPairs(a) ==
  LET n == IF agents[a].route_size <= RouteCapacity
           THEN agents[a].route_size ELSE RouteCapacity
  IN [k \in 1..n |->
        IF agents[a].route[k - 1] \in DOMAIN mid2eid
        THEN edge_vertices(mid2eid[agents[a].route[k - 1]])
        ELSE <<NoVertex, NoVertex>>]

\* number of "has no route" warnings recorded for agent a
NoRouteCount(a) ==
  Cardinality({k \in 1..Len(warnings) :
                 warnings[k] = [kind |-> "noroute", agent |-> a]})

\* the first run over a fresh population has returned
FirstRunDone == rf_pc = "done" /\ runs = 1

\* C3: after route_finding_ ran on agents whose buffers started empty, every
\* agent with routing result v0..vn (n >= 1) holds exactly the n entries
\* eid2mid(edge_id(v_j, v_j+1)), in path order, and route_size = n.
C3_RouteIsMidSequence ==
  FirstRunDone
    => \A a \in AgentIds :
         Len(PathOf(a)) >= 2 => BufferHolds(a, PathMids(PathOf(a)))

\* C3 restricted to paths of at most RouteCapacity edges (holds)
RouteIsMidSequenceWithinCapacity ==
  FirstRunDone
    => \A a \in AgentIds :
         (Len(PathOf(a)) >= 2 /\ Len(PathOf(a)) - 1 <= RouteCapacity)
           => BufferHolds(a, PathMids(PathOf(a)))

\* C4: round trip: for every agent with a non-empty routing result, the
\* written buffer mapped back mid -> eid -> vertex pair is exactly the
\* sequence of consecutive vertex pairs of the path.
C4_RoundTrip ==
  FirstRunDone
    => \A a \in AgentIds :
         Len(PathOf(a)) >= 1 => DecodedPairs(a) = PathPairs(PathOf(a))

\* C5: idempotence: a second run of route_finding_ on the same population
\* leaves every route buffer and route_size as the first run left them.
C5_SecondRunLeavesRoutes ==
  (rf_pc = "done" /\ runs >= 2) => agents = agents_before

\* C6: 0 <= route_size <= C for every agent in every state, and no write is
\* ever issued to route[k] with k >= C.
C6_RouteWithinCapacity ==
  /\ \A a \in AgentIds :
       agents[a].route_size >= 0 /\ agents[a].route_size <= RouteCapacity
  /\ oob = {}

C8_DegeneratePath ==
  Routed
    => \A a \in AgentIds :
         Len(PathOf(a)) = 1
           => /\ agents[a].route_size = 0
              /\ lookups[a] = 0
              /\ NoRouteCount(a) = 0

\* C8 witness: a returned run that has gone through a single-vertex agent
C8_Witness ==
  /\ rf_pc = "done"
  /\ \E a \in AgentIds :
       /\ Len(PathOf(a)) = 1
       /\ agents[a].init_intersection = agents[a].end_intersection

\* number of long-route warnings recorded for agent a
LongCount(a) ==
  Cardinality({k \in 1..Len(warnings) :
                 warnings[k] = [kind |-> "long", agent |-> a]})

\* the current run has gone through the loop head (lines 41-47) for agent a
HeadPassed(a) == Routed /\ (a < i \/ (a = i /\ rf_pc # "agent"))

\* number of consecutive vertex pairs (edges) of agent a's path
EdgeCount(a) == IF PathOf(a) = <<>> THEN 0 ELSE Len(PathOf(a)) - 1

\* C18: the long-route warning is recorded for an agent exactly when its path
\* has more than 100 edges (not for exactly 100 edges), and the route of a
\* warned agent is written in full all the same.
C18_LongWarningOverHundredEdges ==
  \A a \in AgentIds :
    HeadPassed(a)
      => /\ LongCount(a) >= 1 <=> EdgeCount(a) > LongRouteThreshold
         /\ (rf_pc = "done" /\ LongCount(a) >= 1)
              => agents[a].route_size = agents_before[a].route_size + EdgeCount(a)

\* pair number k (0-based) of a path has no merged-edge id
PairUnmapped(seq, k) == edge_id(At(seq, k), At(seq, k + 1)) \notin DOMAIN eid2mid

\* C19 as stated: when a lookup fails for some pair of an agent's path, that
\* agent is left with route_size 0, and the other agents are as they would
\* be without the failure: complete routes before it, untouched after it.
C19_AllOrNothing ==
  rf_pc = "threw"
    => /\ agents[i].route_size = 0
       /\ \A a \in AgentIds :
            /\ a < i => agents[a].route_size
                          = agents_before[a].route_size + EdgeCount(a)
            /\ a > i => agents[a] = agents_before[a]

\* C19 amended: when the eid -> mid lookup fails for pair number j of an
\* agent's path, the exception leaves route_finding_ there: the agent keeps
\* the entries written for the j pairs before it (route_size advanced by j),
\* the agents before it have their routes, the agents after it are untouched.
C19_PrefixKeptOnFailure ==
  rf_pc = "threw"
    => /\ PairUnmapped(PathOf(i), j)
       /\ \A k \in 0..(j - 1) : ~PairUnmapped(PathOf(i), k)
       /\ agents[i].route_size = agents_before[i].route_size + j
       /\ \A k \in 0..(j - 1) :
            agents_before[i].route_size + k < RouteCapacity
              => agents[i].route[agents_before[i].route_size + k]
                   = eid2mid[edge_id(At(PathOf(i), k), At(PathOf(i), k + 1))]
       /\ \A a \in AgentIds :
            /\ a < i => agents[a].route_size
                          = agents_before[a].route_size + EdgeCount(a)
            /\ a > i => agents[a] = agents_before[a]

\* C19 witness: the lookup failed after one entry of the agent's path had
\* been written, with an agent after it that has a path to be assigned
C19_Witness ==
  /\ rf_pc = "threw"
  /\ i = 0 /\ j = 1
  /\ agents[0].route_size = 1
  /\ EdgeCount(1) >= 1

\* ---------------------------------------------------------------------
\* Snapshot tags, device calls, termination, clock (SpecSim, SpecSimFair)
\* ---------------------------------------------------------------------

\* C13: any two distinct checkpoints of one run are persisted under distinct
\* time tags, so no checkpoint overwrites the files of an earlier one, for
\* every startTime, deltaTime and save_interval.
C13_DistinctTimeTags ==
  \A a, b \in 1..Len(checkpoints) :
    a # b => checkpoints[a].tag # checkpoints[b].tag

\* the device calls of one kind, in the order issued
CallsOf(op) == SelectSeq(calls, LAMBDA c : c.op = op)

ValidRun ==
  /\ start0 < endTime
  /\ deltaTime_ > 0
  /\ IntervalSteps(save_interval, deltaTime_) >= 1

\* the loop has stopped at the first iteration boundary at or past endTime
EndedAtFirstBoundary ==
  /\ simulations_steps = StepsNeeded
  /\ startTime >= endTime
  /\ startTime - deltaTime_ < endTime
  /\ device = "finished"
  /\ calls[Len(calls)].op = "finish_cuda"

RECURSIVE ClockAt(_)
ClockAt(k) == IF k = 0 THEN start0 ELSE FloatAdd(ClockAt(k - 1), deltaTime_)

\* the device state after k steps of a run that takes no checkpoint
RECURSIVE DeviceAt(_)
DeviceAt(k) == IF k = 0 THEN Uploaded ELSE DevStep(DeviceAt(k - 1), ClockAt(k - 1))

\* the number of steps of a run that takes no checkpoint
RECURSIVE PlainRunLength(_)
PlainRunLength(k) ==
  IF LoopCond(ClockAt(k), endTime) /\ k < MaxSteps
  THEN PlainRunLength(k + 1) ELSE k

WrittenEdgeData == EdgeDataAt(eid2mid[edge_out.eid])

C12_AverageSpeedSentinel ==
  agent_out # NoRecord =>
    (agent_stats[agent_out.aid].num_steps = 0 => IsNumber(agent_out.ave_speed))

====
